---- MODULE Spec2Model ----
(***************************************************************************)
(* Ledger and settlement engine of src/app.py (settle_up Flask app).       *)
(*                                                                         *)
(* Money.  The program computes with Python floats.  The model computes    *)
(* with exact decimals: every amount is an integer number of mills         *)
(* (1/1000 currency unit), so 0.01 is 10 and 0.005 is 5.  round(x, 2) is   *)
(* rounding to the nearest multiple of Cent, an exact tie going to the     *)
(* even cent as Python documents.  Binary representation error of floats   *)
(* is not modelled.                                                        *)
(*                                                                         *)
(* The data file is the five variables groups .. recent_members; reading   *)
(* and writing it always succeeds.  Dates, share tokens and e-mail fields  *)
(* of the records are left out: no handler modelled here decides on them.  *)
(***************************************************************************)
(* Specifications:                                                         *)
(*   Spec      the data file under create_group, add_expense, settle_up    *)
(*   SpecSD    simplify_debts run step by step on drawn balances           *)
(*   SpecCalc  calculate_total_amount applied to drawn arguments           *)
(*   SpecCG    create_group alone, on every short list of member names     *)
(*   SpecRace  requests of two processes interleaved at load and save      *)
(***************************************************************************)
EXTENDS Integers, Sequences, FiniteSets, TLC

VARIABLES
    groups,            \* data['groups']   : group id -> group record
    expenses,          \* data['expenses'] : expense id -> expense record
    next_group_id,     \* data['next_group_id']
    next_expense_id,   \* data['next_expense_id']
    recent_members,    \* data['recent_members']
    resp,              \* outcome of the last request handled
    balances,          \* balances map, in insertion order: <<[member, balance]>>
    creditors,         \* simplify_debts: list of [member, amt]
    debtors,           \* simplify_debts: list of [member, amt]
    settlements,       \* simplify_debts: list of [from, to, amount]
    pc,                \* position inside simplify_debts / the calculator run
    args,              \* arguments of calculate_total_amount
    result,            \* value returned by calculate_total_amount
    req,               \* interleaved requests: process -> its local variables
    replies            \* interleaved requests: the successes reported so far

vars == <<groups, expenses, next_group_id, next_expense_id, recent_members,
          resp, balances, creditors, debtors, settlements, pc, args, result,
          req, replies>>

storeVars == <<groups, expenses, next_group_id, next_expense_id, recent_members>>
sdVars == <<balances, creditors, debtors, settlements>>
calcVars == <<args, result>>
raceVars == <<req, replies>>

----------------------------------------------------------------------------
(* Money arithmetic *)

\* mills in one cent: the unit round(x, 2) rounds to
Cent == 10

\* the 0.01 of the comparisons against 0.01, in mills
EPS == 10

Abs(x) == IF x < 0 THEN -x ELSE x

Min(a, b) == IF a < b THEN a ELSE b

\* nearest integer to num / den (num >= 0, den > 0), an exact tie to even
RoundHalfEven(num, den) ==
    LET q == num \div den
        r == num % den
    IN  IF 2 * r > den \/ (2 * r = den /\ q % 2 = 1) THEN q + 1 ELSE q

\* round(num / den, 2) for an amount num in mills and a positive integer den
Round2Div(num, den) ==
    LET v == RoundHalfEven(Abs(num), den * Cent) * Cent
    IN  IF num < 0 THEN -v ELSE v

\* round(x, 2)
Round2(x) == Round2Div(x, 1)

Range(s) == {s[i] : i \in 1..Len(s)}

----------------------------------------------------------------------------
(* simplify_debts *)

\* a creditor test that lets a balance of exactly 0.01 through
IsCreditor_atEpsilon(balance) == balance >= EPS

IsCreditor(balance) == balance > EPS

IsDebtor(balance) == balance < -EPS

RECURSIVE Partition(_, _)
\* the loop over balances.items(): creditors when wantCred, else debtors
Partition(bal, wantCred) ==
    IF bal = <<>> THEN <<>>
    ELSE LET b == Head(bal)
             rest == Partition(Tail(bal), wantCred)
         IN  IF wantCred /\ IsCreditor(b.balance)
               THEN <<[member |-> b.member, amt |-> b.balance]>> \o rest
             ELSE IF ~wantCred /\ ~IsCreditor(b.balance) /\ IsDebtor(b.balance)
               THEN <<[member |-> b.member, amt |-> -b.balance]>> \o rest
             ELSE rest

RECURSIVE InsertDesc_unstable(_, _)
\* an insertion that puts e in front of the entries of equal amount
InsertDesc_unstable(sorted, e) ==
    IF sorted = <<>> THEN <<e>>
    ELSE IF Head(sorted).amt > e.amt
           THEN <<Head(sorted)>> \o InsertDesc_unstable(Tail(sorted), e)
         ELSE <<e>> \o sorted

RECURSIVE InsertDesc(_, _)
\* insert e behind every entry whose amount is at least e's
InsertDesc(sorted, e) ==
    IF sorted = <<>> THEN <<e>>
    ELSE IF Head(sorted).amt >= e.amt
           THEN <<Head(sorted)>> \o InsertDesc(Tail(sorted), e)
         ELSE <<e>> \o sorted

RECURSIVE SortDesc(_)
\* list.sort(key=amount, reverse=True): descending, stable
SortDesc(s) ==
    IF s = <<>> THEN <<>>
    ELSE InsertDesc(SortDesc(SubSeq(s, 1, Len(s) - 1)), s[Len(s)])

\* an iteration that records the larger of the two head amounts
SdStep_larger(st) ==
    LET c == Head(st.creditors)
        d == Head(st.debtors)
        settlement_amt == IF c.amt > d.amt THEN c.amt ELSE d.amt
        recorded == Append(st.settlements,
                       [from |-> d.member, to |-> c.member,
                        amount |-> Round2(settlement_amt)])
    IN  IF c.amt > d.amt
          THEN [creditors |-> <<[member |-> c.member, amt |-> c.amt - d.amt]>>
                                 \o Tail(st.creditors),
                debtors |-> Tail(st.debtors),
                settlements |-> recorded]
        ELSE IF d.amt > c.amt
          THEN [creditors |-> Tail(st.creditors),
                debtors |-> <<[member |-> d.member, amt |-> d.amt - c.amt]>>
                               \o Tail(st.debtors),
                settlements |-> recorded]
        ELSE [creditors |-> Tail(st.creditors),
              debtors |-> Tail(st.debtors),
              settlements |-> recorded]

\* an iteration that never removes the head debtor: a settled debtor stays
\* in the list with nothing left
SdStep_keepDebtor(st) ==
    LET c == Head(st.creditors)
        d == Head(st.debtors)
        settlement_amt == Min(c.amt, d.amt)
        recorded == Append(st.settlements,
                       [from |-> d.member, to |-> c.member,
                        amount |-> Round2(settlement_amt)])
    IN  IF c.amt > d.amt
          THEN [creditors |-> <<[member |-> c.member, amt |-> c.amt - d.amt]>>
                                 \o Tail(st.creditors),
                debtors |-> <<[member |-> d.member, amt |-> 0]>>
                               \o Tail(st.debtors),
                settlements |-> recorded]
        ELSE IF d.amt > c.amt
          THEN [creditors |-> Tail(st.creditors),
                debtors |-> <<[member |-> d.member, amt |-> d.amt - c.amt]>>
                               \o Tail(st.debtors),
                settlements |-> recorded]
        ELSE [creditors |-> Tail(st.creditors),
              debtors |-> Tail(st.debtors),
              settlements |-> recorded]

\* one iteration of the while loop, on the triple of lists
SdStep(st) ==
    LET c == Head(st.creditors)
        d == Head(st.debtors)
        settlement_amt == Min(c.amt, d.amt)
        recorded == Append(st.settlements,
                       [from |-> d.member, to |-> c.member,
                        amount |-> Round2(settlement_amt)])
    IN  IF c.amt > d.amt
          THEN [creditors |-> <<[member |-> c.member, amt |-> c.amt - d.amt]>>
                                 \o Tail(st.creditors),
                debtors |-> Tail(st.debtors),
                settlements |-> recorded]
        ELSE IF d.amt > c.amt
          THEN [creditors |-> Tail(st.creditors),
                debtors |-> <<[member |-> d.member, amt |-> d.amt - c.amt]>>
                               \o Tail(st.debtors),
                settlements |-> recorded]
        ELSE [creditors |-> Tail(st.creditors),
              debtors |-> Tail(st.debtors),
              settlements |-> recorded]

\* the lists before the loop
SdEnter(bal) ==
    [creditors |-> SortDesc(Partition(bal, TRUE)),
     debtors |-> SortDesc(Partition(bal, FALSE)),
     settlements |-> <<>>]

RECURSIVE SdLoop(_)
SdLoop(st) ==
    IF st.creditors # <<>> /\ st.debtors # <<>> THEN SdLoop(SdStep(st)) ELSE st

\* the list simplify_debts returns
simplify_debts(bal) == SdLoop(SdEnter(bal)).settlements

----------------------------------------------------------------------------
(* calculate_total_amount *)

\* the None the calculator returns on invalid input
CalcNone == [kind |-> "None"]

\* the calculator without the clamp of lines 207-208
calculate_total_amount_unclamped(base_amount, discount_amount, service_tax_amount, gst_amount) ==
    IF base_amount < 0 \/ discount_amount < 0
         \/ service_tax_amount < 0 \/ gst_amount < 0
      THEN CalcNone
    ELSE LET amount_after_discount == base_amount - discount_amount
             total_amount == amount_after_discount + service_tax_amount + gst_amount
         IN  [kind |-> "breakdown",
              base_amount |-> Round2(base_amount),
              discount_amount |-> Round2(discount_amount),
              amount_after_discount |-> Round2(amount_after_discount),
              service_tax_amount |-> Round2(service_tax_amount),
              gst_amount |-> Round2(gst_amount),
              total_amount |-> Round2(total_amount)]

calculate_total_amount(base_amount, discount_amount, service_tax_amount, gst_amount) ==
    IF base_amount < 0 \/ discount_amount < 0
         \/ service_tax_amount < 0 \/ gst_amount < 0
      THEN CalcNone
    ELSE LET diff == base_amount - discount_amount
             amount_after_discount == IF diff < 0 THEN 0 ELSE diff
             total_amount == amount_after_discount + service_tax_amount + gst_amount
         IN  [kind |-> "breakdown",
              base_amount |-> Round2(base_amount),
              discount_amount |-> Round2(discount_amount),
              amount_after_discount |-> Round2(amount_after_discount),
              service_tax_amount |-> Round2(service_tax_amount),
              gst_amount |-> Round2(gst_amount),
              total_amount |-> Round2(total_amount)]

\* values of args and result while no calculator call is modelled
NoArgs == [kind |-> "none"]
NoResult == [kind |-> "none"]

----------------------------------------------------------------------------
(* the data file and the request handlers, one request at a time *)

\* at most this many groups are created
MaxGroups == 1

\* at most this many expenses are stored
MaxExpenses == 2

\* session['user_id'] of the logged-in user sending a request
Users == {"u1", "u2"}

\* the users that send create_group requests
Creators == {"u1"}

\* request.form['group_name'], stripped
GroupNames == {"", "trip"}

\* the stripped, non-empty names of request.form['members']
MemberLists == {<<"A">>, <<"A", "B", "C", "D", "E">>}

\* request.form['description'], stripped
Descriptions == {"", "lunch"}

\* <<base_amount, discount_amount, service_tax_amount, gst_amount>> of a form
AmountForms == {<<0, 0, 0, 0>>, <<1100, 0, 10, 10>>, <<1100, 2000, 10, 10>>}

\* request.form['paid_by']
PayerNames == {"A", "Z"}

SplitTypes == {"equal", "custom"}

\* request.form.getlist('participants'); the group's own member list is
\* drawn as well
ParticipantLists == {<<>>, <<"A", "Z">>}

\* the share_<member> fields of a form: share_A and share_B
ShareForm(a, b) == ("A" :> a) @@ ("B" :> b)

\* a form without share_<member> fields
NoShareFields == <<>>

\* the share fields sent with a custom split
CustomForms == {ShareForm(560, 552), ShareForm(1620, -500), ShareForm(560, 1500)}

\* an equal split is sent without share fields
ShareForms(split_type) ==
    IF split_type = "equal" THEN {NoShareFields} ELSE CustomForms

NoBalances == <<>>

\* the data file load_data creates when none exists, lines 94-100
EmptyStore ==
    /\ groups = <<>>
    /\ expenses = <<>>
    /\ next_group_id = 1
    /\ next_expense_id = 1
    /\ recent_members = <<>>
    /\ resp = [op |-> "none"]

\* no request is being handled step by step
NoRequests ==
    /\ req = <<>>
    /\ replies = <<>>

InitStore ==
    /\ EmptyStore
    /\ NoRequests
    /\ balances = NoBalances
    /\ creditors = <<>>
    /\ debtors = <<>>
    /\ settlements = <<>>
    /\ pc = "idle"
    /\ args = NoArgs
    /\ result = NoResult

\* the list update_recent_members saves
update_recent_members(recent, members_list) ==
    LET RECURSIVE Ins(_, _)
        Ins(rec, ms) ==
            IF ms = <<>> THEN rec
            ELSE IF Head(ms) # "" /\ Head(ms) \notin Range(rec)
                   THEN Ins(<<Head(ms)>> \o rec, Tail(ms))
                 ELSE Ins(rec, Tail(ms))
        all == Ins(recent, members_list)
    IN  SubSeq(all, 1, Min(Len(all), 10))

Rejected(op, error) == [op |-> op, status |-> "rejected", error |-> error]

\* POST /create_group
create_group(user, group_name, member_names) ==
    /\ pc = "idle"
    /\ Cardinality(DOMAIN groups) < MaxGroups
    /\ IF group_name = ""
         THEN /\ resp' = Rejected("create_group", "Please enter a group name")
              /\ UNCHANGED storeVars
       ELSE IF Len(member_names) < 2
         THEN /\ resp' = Rejected("create_group", "Please add at least 2 members")
              /\ UNCHANGED storeVars
       ELSE LET group_id == next_group_id             \* get_next_group_id
                data_recent == recent_members         \* data = load_data()
                group == [id |-> group_id, name |-> group_name,
                          members |-> member_names, owner_id |-> user,
                          shared_with |-> {}, expenses |-> <<>>]
                file_recent == update_recent_members(recent_members, member_names)
            IN  /\ next_group_id' = group_id + 1
                /\ groups' = (group_id :> group) @@ groups
                \* line 606 saves file_recent; save_data(data) at line 608 then
                \* writes the list loaded at line 589 over it
                /\ recent_members' = data_recent
                /\ UNCHANGED <<expenses, next_expense_id>>
                /\ resp' = [op |-> "create_group", status |-> "saved",
                            group_id |-> group_id]
    /\ balances' = NoBalances
    /\ settlements' = <<>>
    /\ UNCHANGED <<creditors, debtors, pc, calcVars, raceVars>>

\* the id get_next_expense_id returns
get_next_expense_id(exps) ==
    IF DOMAIN exps = {} THEN 1
    ELSE (CHOOSE i \in DOMAIN exps : \A j \in DOMAIN exps : j <= i) + 1

\* total_amount of add_expense, lines 771-772
expense_total(base_amount, discount_amount, service_tax_amount, gst_amount) ==
    LET amount_after_discount == base_amount - discount_amount
    IN  amount_after_discount + service_tax_amount + gst_amount

\* expense['shares'] of an equal split, lines 800-805
equal_shares(members, participants, total_amount) ==
    LET share_amount == Round2Div(total_amount, Len(participants))
    IN  [m \in Range(members) |->
            IF m \in Range(participants) THEN share_amount ELSE 0]

\* float(request.form.get('share_<member>', 0))
form_share(form, m) == IF m \in DOMAIN form THEN form[m] ELSE 0

\* expense['shares'] of a custom split, lines 809-815
custom_shares(members, participants, form) ==
    [m \in Range(members) |->
        IF m \in Range(participants) THEN form_share(form, m) ELSE 0]

RECURSIVE total_custom(_, _, _)
\* total_custom after the loop over group['members'], lines 808-813
total_custom(members, participants, form) ==
    IF members = <<>> THEN 0
    ELSE (IF Head(members) \in Range(participants)
            THEN form_share(form, Head(members)) ELSE 0)
         + total_custom(Tail(members), participants, form)

HasAccess(group, user) == group.owner_id = user \/ user \in group.shared_with

\* the participant lists a form for this group is sent with
FormParticipants(group) == ParticipantLists \cup {group.members}

\* lines 770-839: the request has passed the checks of lines 758-768
store_expense(group_id, description, amounts, paid_by, split_type, participants, form) ==
    LET group == groups[group_id]
        total_amount == expense_total(amounts[1], amounts[2], amounts[3], amounts[4])
        data_next_expense_id == next_expense_id      \* data = load_data()
        expense_id == get_next_expense_id(expenses)
        shares == IF split_type = "equal"
                    THEN equal_shares(group.members, participants, total_amount)
                  ELSE custom_shares(group.members, participants, form)
        expense == [id |-> expense_id, description |-> description,
                    base_amount |-> amounts[1], discount_amount |-> amounts[2],
                    service_tax_amount |-> amounts[3], gst_amount |-> amounts[4],
                    amount |-> Round2(total_amount), paid_by |-> paid_by,
                    group_id |-> group_id, split_type |-> split_type,
                    participants |-> participants, shares |-> shares]
    IN  IF split_type # "equal"
           /\ Abs(total_custom(group.members, participants, form) - total_amount) > EPS
          THEN \* get_next_expense_id has saved its counter already
               /\ next_expense_id' = expense_id + 1
               /\ UNCHANGED <<groups, expenses, next_group_id, recent_members>>
               /\ resp' = Rejected("add_expense", "Custom shares must equal total amount")
        ELSE /\ expenses' = (expense_id :> expense) @@ expenses
             /\ groups' = [groups EXCEPT ![group_id].expenses =
                              IF expense_id \in Range(@) THEN @
                              ELSE Append(@, expense_id)]
             \* save_data(data) writes the counter loaded at line 725
             /\ next_expense_id' = data_next_expense_id
             /\ UNCHANGED <<next_group_id, recent_members>>
             /\ resp' = [op |-> "add_expense", status |-> "saved",
                         expense_id |-> expense_id]

\* POST /group/<group_id>/add_expense; the fields of the form are drawn
\* where the handler first decides on them
add_expense(user, group_id) ==
    /\ pc = "idle"
    /\ Cardinality(DOMAIN expenses) < MaxExpenses
    /\ balances' = NoBalances
    /\ settlements' = <<>>
    /\ UNCHANGED <<creditors, debtors, pc, calcVars, raceVars>>
    /\ IF group_id \notin DOMAIN groups
         THEN /\ resp' = Rejected("add_expense", "Group not found")
              /\ UNCHANGED storeVars
       ELSE IF ~HasAccess(groups[group_id], user)
         THEN /\ resp' = Rejected("add_expense", "You do not have access to this group.")
              /\ UNCHANGED storeVars
       ELSE \E participants \in FormParticipants(groups[group_id]) :
         IF participants = <<>>
           THEN /\ resp' = Rejected("add_expense", "Please select at least one participant")
                /\ UNCHANGED storeVars
         ELSE \E description \in Descriptions :
           IF description = ""
             THEN /\ resp' = Rejected("add_expense", "Please enter a description")
                  /\ UNCHANGED storeVars
           ELSE \E amounts \in AmountForms :
             IF amounts[1] <= 0
               THEN /\ resp' = Rejected("add_expense", "Base amount must be greater than 0")
                    /\ UNCHANGED storeVars
             ELSE \E paid_by \in PayerNames, split_type \in SplitTypes :
                    \E form \in ShareForms(split_type) :
                       store_expense(group_id, description, amounts, paid_by,
                                     split_type, participants, form)

RECURSIVE group_expenses(_, _, _)
\* the expenses settle_up collects for the group, lines 871-875
group_expenses(ids, exps, group_id) ==
    IF ids = <<>> THEN <<>>
    ELSE (IF Head(ids) \in DOMAIN exps /\ exps[Head(ids)].group_id = group_id
            THEN <<exps[Head(ids)]>> ELSE <<>>)
         \o group_expenses(Tail(ids), exps, group_id)

RECURSIVE net_balance(_, _)
\* the unrounded balance of member m after the loop of lines 878-887
net_balance(m, exps) ==
    IF exps = <<>> THEN 0
    ELSE LET e == Head(exps)
         IN  (IF e.paid_by = m THEN e.amount ELSE 0)
             - (IF m \in DOMAIN e.shares THEN e.shares[m] ELSE 0)
             + net_balance(m, Tail(exps))

RECURSIVE dict_keys(_)
\* the keys of a dict built from a list, in insertion order
dict_keys(names) ==
    IF names = <<>> THEN <<>>
    ELSE LET init == dict_keys(SubSeq(names, 1, Len(names) - 1))
             last == names[Len(names)]
         IN  IF last \in Range(init) THEN init ELSE Append(init, last)

RECURSIVE net_debit(_, _)
\* the shares of member m alone, the payer's credit left out
net_debit(m, exps) ==
    IF exps = <<>> THEN 0
    ELSE - (IF m \in DOMAIN Head(exps).shares THEN Head(exps).shares[m] ELSE 0)
         + net_debit(m, Tail(exps))

\* balances that never credit the payer
aggregate_balances_uncredited(members, exps) ==
    LET keys == dict_keys(members)
    IN  [i \in 1..Len(keys) |->
            [member |-> keys[i], balance |-> Round2(net_debit(keys[i], exps))]]

\* the rounded balances of settle_up, line 890
aggregate_balances(members, exps) ==
    LET keys == dict_keys(members)
    IN  [i \in 1..Len(keys) |->
            [member |-> keys[i], balance |-> Round2(net_balance(keys[i], exps))]]

\* GET /group/<group_id>/settle
settle_up(user, group_id) ==
    /\ pc = "idle"
    /\ IF group_id \notin DOMAIN groups
         THEN /\ resp' = Rejected("settle_up", "Group not found")
              /\ balances' = NoBalances
              /\ settlements' = <<>>
       ELSE LET group == groups[group_id]
                exps == group_expenses(group.expenses, expenses, group_id)
                bal == aggregate_balances(group.members, exps)
            IN  /\ balances' = bal
                /\ settlements' = simplify_debts(bal)
                /\ resp' = [op |-> "settle_up", status |-> "rendered",
                            group_id |-> group_id, total_expenses |-> Len(exps)]
    /\ UNCHANGED <<storeVars, creditors, debtors, pc, calcVars, raceVars>>

Next ==
    \/ \E user \in Creators, group_name \in GroupNames, member_names \in MemberLists :
          create_group(user, group_name, member_names)
    \/ \E user \in Users, group_id \in 1..MaxGroups : add_expense(user, group_id)
    \/ \E user \in Users, group_id \in 1..MaxGroups : settle_up(user, group_id)

Spec == InitStore /\ [][Next]_vars

----------------------------------------------------------------------------
(* create_group alone, on every short list of member names *)

\* the names a members field is made of
CgNames == {"A", "B", "C"}

\* at most this many names in a members field
MaxListLen == 3

\* the stripped, non-empty names of a members field, repetitions included
NameLists == UNION {[1..n -> CgNames] : n \in 0..MaxListLen}

CgGroupNames == {"", "trip", "home"}

NextCG ==
    \E user \in Users, group_name \in CgGroupNames, member_names \in NameLists :
        create_group(user, group_name, member_names)

SpecCG == InitStore /\ [][NextCG]_vars

----------------------------------------------------------------------------
(* create_group and add_expense requests of two processes, interleaved at   *)
(* the load_data and save_data calls                                        *)

\* the request threads of the server
Procs == {"p1", "p2"}

\* each process sends at most this many requests
MaxRequests == 2

\* the logged-in user of both processes
RaceUser == "u1"

\* the form of every create_group request
RaceMembers == <<"A", "B">>

\* the amounts of every add_expense request: total 1.12
RaceAmounts == <<1100, 0, 10, 10>>

\* group_name of the n-th request of process p
RaceGroupName(p, n) == "group " \o ToString(n) \o " of " \o p

\* description of the n-th request of process p
RaceDescription(p, n) == "expense " \o ToString(n) \o " of " \o p

\* the dict load_data returns: the content of the data file
load_data ==
    [groups |-> groups, expenses |-> expenses, next_group_id |-> next_group_id,
     next_expense_id |-> next_expense_id, recent_members |-> recent_members]

\* save_data(data): the file now holds data
save_data(data) ==
    /\ groups' = data.groups
    /\ expenses' = data.expenses
    /\ next_group_id' = data.next_group_id
    /\ next_expense_id' = data.next_expense_id
    /\ recent_members' = data.recent_members

\* the data of lines 94-100
default_data ==
    [groups |-> <<>>, expenses |-> <<>>, next_group_id |-> 1,
     next_expense_id |-> 1, recent_members |-> <<>>]

\* the local variables of a process between two requests
IdleRequest(sent) ==
    [at |-> "idle", group_id |-> 0, data |-> default_data, tmp |-> default_data,
     id |-> 0, sent |-> sent]

InitRace ==
    /\ EmptyStore
    /\ balances = NoBalances
    /\ creditors = <<>>
    /\ debtors = <<>>
    /\ settlements = <<>>
    /\ pc = "idle"
    /\ args = NoArgs
    /\ result = NoResult
    /\ req = [p \in Procs |-> IdleRequest(0)]
    /\ replies = <<>>

\* the variables no step of an interleaved request writes
RaceFrame == UNCHANGED <<sdVars, pc, calcVars>>

\* create_group, line 584: get_next_group_id reads the file (line 144)
CgNextIdLoad(p) ==
    /\ req[p].at = "idle"
    /\ req[p].sent < MaxRequests
    /\ req' = [req EXCEPT ![p].at = "cg_next_id_save", ![p].tmp = load_data,
                          ![p].sent = @ + 1]
    /\ UNCHANGED <<storeVars, resp, replies>>
    /\ RaceFrame

\* get_next_group_id writes the counter and returns the id (lines 145-148)
CgNextIdSave(p) ==
    /\ req[p].at = "cg_next_id_save"
    /\ save_data([req[p].tmp EXCEPT !.next_group_id = @ + 1])
    /\ req' = [req EXCEPT ![p].at = "cg_load", ![p].id = req[p].tmp.next_group_id]
    /\ UNCHANGED <<resp, replies>>
    /\ RaceFrame

\* create_group, line 589: data = load_data()
CgLoad(p) ==
    /\ req[p].at = "cg_load"
    /\ req' = [req EXCEPT ![p].at = "cg_recent_load", ![p].data = load_data]
    /\ UNCHANGED <<storeVars, resp, replies>>
    /\ RaceFrame

\* create_group, line 606: update_recent_members reads the file (line 176)
CgRecentLoad(p) ==
    /\ req[p].at = "cg_recent_load"
    /\ req' = [req EXCEPT ![p].at = "cg_recent_save", ![p].tmp = load_data]
    /\ UNCHANGED <<storeVars, resp, replies>>
    /\ RaceFrame

\* update_recent_members writes the file (lines 177-189)
CgRecentSave(p) ==
    /\ req[p].at = "cg_recent_save"
    /\ save_data([req[p].tmp EXCEPT !.recent_members =
                     update_recent_members(@, RaceMembers)])
    /\ req' = [req EXCEPT ![p].at = "cg_save"]
    /\ UNCHANGED <<resp, replies>>
    /\ RaceFrame

\* create_group, lines 591-610: the group is put into data and data is saved
CgSave(p) ==
    /\ req[p].at = "cg_save"
    /\ LET group_id == req[p].id
           group == [id |-> group_id, name |-> RaceGroupName(p, req[p].sent),
                     members |-> RaceMembers, owner_id |-> RaceUser,
                     shared_with |-> {}, expenses |-> <<>>]
       IN  /\ save_data([req[p].data EXCEPT !.groups = (group_id :> group) @@ @])
           /\ resp' = [op |-> "create_group", status |-> "saved",
                       group_id |-> group_id]
           /\ replies' = Append(replies, [op |-> "create_group", id |-> group_id,
                                          name |-> group.name])
    /\ req' = [req EXCEPT ![p] = IdleRequest(req[p].sent)]
    /\ RaceFrame

\* add_expense, lines 725-737: data = load_data() and the checks on the group
AeLoad(p, group_id) ==
    /\ req[p].at = "idle"
    /\ req[p].sent < MaxRequests
    /\ IF group_id \notin DOMAIN groups
         THEN /\ resp' = Rejected("add_expense", "Group not found")
              /\ req' = [req EXCEPT ![p].sent = @ + 1]
       ELSE IF ~HasAccess(groups[group_id], RaceUser)
         THEN /\ resp' = Rejected("add_expense", "You do not have access to this group.")
              /\ req' = [req EXCEPT ![p].sent = @ + 1]
       ELSE /\ req' = [req EXCEPT ![p].at = "ae_next_id_load", ![p].data = load_data,
                                  ![p].group_id = group_id, ![p].sent = @ + 1]
            /\ UNCHANGED resp
    /\ UNCHANGED <<storeVars, replies>>
    /\ RaceFrame

\* add_expense, line 775: get_next_expense_id reads the file (line 152)
AeNextIdLoad(p) ==
    /\ req[p].at = "ae_next_id_load"
    /\ req' = [req EXCEPT ![p].at = "ae_next_id_save", ![p].tmp = load_data]
    /\ UNCHANGED <<storeVars, resp, replies>>
    /\ RaceFrame

\* get_next_expense_id writes the counter and returns the id (lines 154-172)
AeNextIdSave(p) ==
    /\ req[p].at = "ae_next_id_save"
    /\ LET next_id == get_next_expense_id(req[p].tmp.expenses)
       IN  /\ save_data([req[p].tmp EXCEPT !.next_expense_id = next_id + 1])
           /\ req' = [req EXCEPT ![p].at = "ae_save", ![p].id = next_id]
    /\ UNCHANGED <<resp, replies>>
    /\ RaceFrame

\* add_expense, lines 781-836: an equal split among all members, paid by the
\* first, is put into data and data is saved
AeSave(p) ==
    /\ req[p].at = "ae_save"
    /\ LET data == req[p].data
           group_id == req[p].group_id
           group == data.groups[group_id]
           expense_id == req[p].id
           total_amount == expense_total(RaceAmounts[1], RaceAmounts[2],
                                         RaceAmounts[3], RaceAmounts[4])
           expense == [id |-> expense_id,
                       description |-> RaceDescription(p, req[p].sent),
                       base_amount |-> RaceAmounts[1],
                       discount_amount |-> RaceAmounts[2],
                       service_tax_amount |-> RaceAmounts[3],
                       gst_amount |-> RaceAmounts[4],
                       amount |-> Round2(total_amount), paid_by |-> group.members[1],
                       group_id |-> group_id, split_type |-> "equal",
                       participants |-> group.members,
                       shares |-> equal_shares(group.members, group.members,
                                               total_amount)]
       IN  /\ save_data([data EXCEPT
                  !.expenses = (expense_id :> expense) @@ @,
                  !.groups[group_id].expenses =
                      IF expense_id \in Range(@) THEN @ ELSE Append(@, expense_id)])
           /\ resp' = [op |-> "add_expense", status |-> "saved",
                       expense_id |-> expense_id]
           /\ replies' = Append(replies, [op |-> "add_expense", id |-> expense_id,
                                          name |-> expense.description])
    /\ req' = [req EXCEPT ![p] = IdleRequest(req[p].sent)]
    /\ RaceFrame

NextRace ==
    \E p \in Procs :
        \/ CgNextIdLoad(p)
        \/ CgNextIdSave(p)
        \/ CgLoad(p)
        \/ CgRecentLoad(p)
        \/ CgRecentSave(p)
        \/ CgSave(p)
        \/ \E group_id \in 1..MaxGroups : AeLoad(p, group_id)
        \/ AeNextIdLoad(p)
        \/ AeNextIdSave(p)
        \/ AeSave(p)

SpecRace == InitRace /\ [][NextRace]_vars

----------------------------------------------------------------------------
(* simplify_debts run step by step on drawn balances *)

\* members of the balances maps that are drawn
SdNames == <<"A", "B", "C", "D", "E">>

\* largest number of members in a drawn balances map
NumSdMembers == 4

\* the balances drawn, in mills
BalanceValues == {-30000, -30, -20, -10, 0, 5, 10, 12, 20, 30, 60000}

InitSD ==
    /\ EmptyStore
    /\ NoRequests
    /\ \E n \in 0..NumSdMembers : \E f \in [1..n -> BalanceValues] :
          balances = [i \in 1..n |-> [member |-> SdNames[i], balance |-> f[i]]]
    /\ creditors = <<>>
    /\ debtors = <<>>
    /\ settlements = <<>>
    /\ pc = "enter"
    /\ args = NoArgs
    /\ result = NoResult

\* lines 227-241: partition and sort
SdPartition ==
    /\ pc = "enter"
    /\ creditors' = SdEnter(balances).creditors
    /\ debtors' = SdEnter(balances).debtors
    /\ settlements' = <<>>
    /\ pc' = "loop"
    /\ UNCHANGED <<storeVars, resp, balances, calcVars, raceVars>>

\* lines 244-265: one iteration
SdIterate ==
    /\ pc = "loop"
    /\ creditors # <<>> /\ debtors # <<>>
    /\ LET st == SdStep([creditors |-> creditors, debtors |-> debtors,
                         settlements |-> settlements])
       IN  /\ creditors' = st.creditors
           /\ debtors' = st.debtors
           /\ settlements' = st.settlements
    /\ UNCHANGED <<storeVars, resp, balances, pc, calcVars, raceVars>>

\* line 267: return settlements
SdReturn ==
    /\ pc = "loop"
    /\ creditors = <<>> \/ debtors = <<>>
    /\ pc' = "done"
    /\ UNCHANGED <<storeVars, resp, sdVars, calcVars, raceVars>>

NextSD == SdPartition \/ SdIterate \/ SdReturn

SpecSD == InitSD /\ [][NextSD]_vars

----------------------------------------------------------------------------
(* calculate_total_amount applied to drawn arguments *)

\* the amounts drawn for each argument, in mills
CalcValues == {-1000, 0, 4, 5000, 10000, 20000, 100000}

InitCalc ==
    /\ EmptyStore
    /\ NoRequests
    /\ balances = <<>>
    /\ creditors = <<>>
    /\ debtors = <<>>
    /\ settlements = <<>>
    /\ pc = "call"
    /\ \E b \in CalcValues, d \in CalcValues, s \in CalcValues, g \in CalcValues :
          args = [kind |-> "args", base_amount |-> b, discount_amount |-> d,
                  service_tax_amount |-> s, gst_amount |-> g]
    /\ result = NoResult

CalcCall ==
    /\ pc = "call"
    /\ result' = calculate_total_amount(args.base_amount, args.discount_amount,
                                        args.service_tax_amount, args.gst_amount)
    /\ pc' = "returned"
    /\ UNCHANGED <<storeVars, resp, sdVars, args, raceVars>>

NextCalc == CalcCall

SpecCalc == InitCalc /\ [][NextCalc]_vars

----------------------------------------------------------------------------
(* Properties *)

Max(a, b) == IF a > b THEN a ELSE b

RECURSIVE SetSum(_, _)
\* sum of f[x] over the finite set S
SetSum(f, S) ==
    IF S = {} THEN 0
    ELSE LET x == CHOOSE y \in S : TRUE IN f[x] + SetSum(f, S \ {x})

RECURSIVE SumBalances(_)
SumBalances(bal) ==
    IF bal = <<>> THEN 0 ELSE Head(bal).balance + SumBalances(Tail(bal))

RECURSIVE Paid(_, _)
\* what member m pays in the settlements
Paid(m, setts) ==
    IF setts = <<>> THEN 0
    ELSE (IF Head(setts).from = m THEN Head(setts).amount ELSE 0) + Paid(m, Tail(setts))

RECURSIVE Received(_, _)
\* what member m receives in the settlements
Received(m, setts) ==
    IF setts = <<>> THEN 0
    ELSE (IF Head(setts).to = m THEN Head(setts).amount ELSE 0) + Received(m, Tail(setts))

\* the balance of entry b once every settlement is applied
AfterSettlements(b, setts) ==
    b.balance + Paid(b.member, setts) - Received(b.member, setts)

ListMembers(list) == {list[i].member : i \in 1..Len(list)}

\* C1: for balances summing to zero, applying every settlement that
\* simplify_debts returns leaves every member, the discarded ones included,
\* within 0.01 of zero.
C1_SettlementCorrectness ==
    (pc = "done" /\ SumBalances(balances) = 0) =>
        \A i \in 1..Len(balances) :
            Abs(AfterSettlements(balances[i], settlements)) <= EPS

\* C10: a member whose balance is within 0.01 of zero is in neither list and
\* is never the 'from' or the 'to' of a settlement.
C10_EpsilonExclusion ==
    \A i \in 1..Len(balances) :
        Abs(balances[i].balance) <= EPS =>
            /\ balances[i].member \notin ListMembers(creditors)
            /\ balances[i].member \notin ListMembers(debtors)
            /\ \A k \in 1..Len(settlements) :
                  /\ settlements[k].from # balances[i].member
                  /\ settlements[k].to # balances[i].member

\* simplify_debts has returned settlements for balances in which some member
\* is at exactly 0.01 or at 0.005 in absolute value
C10_Witness ==
    /\ pc = "done"
    /\ settlements # <<>>
    /\ \E i \in 1..Len(balances) :
          Abs(balances[i].balance) \in {EPS, EPS \div 2}

WholeCents(x) == x % Cent = 0

\* C5: for base > 0 and discount, service tax, gst >= 0 the calculator
\* returns amount_after_discount = max(base - discount, 0) and
\* total_amount = that amount + service tax + gst, both in cents;
\* (100, 20, 5, 10) gives 80 and 95.00.
C5_TotalInvariant ==
    (/\ pc = "returned"
     /\ args.base_amount > 0
     /\ args.discount_amount >= 0
     /\ args.service_tax_amount >= 0
     /\ args.gst_amount >= 0) =>
        LET after == Max(args.base_amount - args.discount_amount, 0)
        IN  /\ result.kind = "breakdown"
            /\ result.amount_after_discount = Round2(after)
            /\ result.total_amount
                  = Round2(after + args.service_tax_amount + args.gst_amount)
            /\ (/\ WholeCents(args.base_amount)
                /\ WholeCents(args.discount_amount)
                /\ WholeCents(args.service_tax_amount)
                /\ WholeCents(args.gst_amount)) =>
                   /\ result.amount_after_discount = after
                   /\ result.total_amount
                         = after + args.service_tax_amount + args.gst_amount
            /\ (/\ args.base_amount = 100000 /\ args.discount_amount = 20000
                /\ args.service_tax_amount = 5000 /\ args.gst_amount = 10000) =>
                   /\ result.amount_after_discount = 80000
                   /\ result.total_amount = 95000

\* the calculator has returned for (100, 20, 5, 10)
C5_Witness ==
    /\ pc = "returned"
    /\ args.base_amount = 100000 /\ args.discount_amount = 20000
    /\ args.service_tax_amount = 5000 /\ args.gst_amount = 10000
    /\ result.kind = "breakdown"

\* C6: the calculator fails whenever an argument is negative and also
\* whenever the base amount is 0.
C6_InvalidAmount ==
    (/\ pc = "returned"
     /\ \/ args.base_amount < 0 \/ args.discount_amount < 0
        \/ args.service_tax_amount < 0 \/ args.gst_amount < 0
        \/ args.base_amount = 0) =>
        result.kind = "None"

\* the group an expense was stored for
GroupOf(e) == groups[e.group_id]

\* sum of the shares of the participants of e
ShareSum(e) == SetSum(e.shares, Range(e.participants) \cap DOMAIN e.shares)

\* total_amount of the stored fields with the discount clamped at the base
ClampedTotal(e) ==
    Max(e.base_amount - e.discount_amount, 0) + e.service_tax_amount + e.gst_amount

\* the expense invariants: payer in the group, non-participant shares 0,
\* participant shares within 0.01 of the total
ExpenseInvariants(e, members) ==
    /\ e.paid_by \in Range(members)
    /\ \A m \in DOMAIN e.shares \ Range(e.participants) : e.shares[m] = 0
    /\ Abs(ShareSum(e) - e.amount) <= EPS

\* settle_up has rendered the balances of a group whose collected expenses
\* all satisfy the expense invariants
SettledConsistent ==
    /\ resp.op = "settle_up"
    /\ resp.status = "rendered"
    /\ \A id \in Range(groups[resp.group_id].expenses) :
          ExpenseInvariants(expenses[id], groups[resp.group_id].members)

\* C2 as stated: the balances settle_up computes from expenses satisfying the
\* expense invariants sum to within 0.01 of zero.
C2_ZeroSum ==
    SettledConsistent => Abs(SumBalances(balances)) <= EPS

\* C2 as amended: the balances sum to within 0.01 per collected expense plus
\* half a cent of rounding per member.
C2_ZeroSumPerExpense ==
    SettledConsistent =>
        2 * Abs(SumBalances(balances))
            <= 2 * EPS * resp.total_expenses + Cent * Len(balances)

\* settle_up has rendered two consistent expenses whose drifts add up
C2_Witness ==
    /\ SettledConsistent
    /\ resp.total_expenses = 2
    /\ Abs(SumBalances(balances)) > EPS

\* C3: every stored expense whose participants are a non-empty set of group
\* members has the shares of its participants summing to within 0.01 of its
\* stored total.
C3_ShareSum ==
    \A id \in DOMAIN expenses :
        LET e == expenses[id]
        IN  (/\ e.participants # <<>>
             /\ Range(e.participants) \subseteq Range(GroupOf(e).members)) =>
                Abs(ShareSum(e) - e.amount) <= EPS

\* C4: every stored expense has amount = max(base - discount, 0) + service
\* tax + gst, rounded to cents.
C4_StoredTotal ==
    \A id \in DOMAIN expenses :
        expenses[id].amount = Round2(ClampedTotal(expenses[id]))

\* C7: a stored custom split has supplied shares summing to within 0.01 of
\* the expense total, and every participant's share is non-negative.
C7_CustomSplit ==
    \A id \in DOMAIN expenses :
        LET e == expenses[id]
        IN  e.split_type = "custom" =>
               /\ Abs(ShareSum(e) - expense_total(e.base_amount, e.discount_amount,
                                       e.service_tax_amount, e.gst_amount)) <= EPS
               /\ \A m \in Range(e.participants) \cap DOMAIN e.shares :
                     e.shares[m] >= 0

\* C8: every stored expense has its payer among the group's members and a
\* non-empty participant list drawn from the group's members.
C8_Membership ==
    \A id \in DOMAIN expenses :
        LET e == expenses[id]
        IN  /\ e.paid_by \in Range(GroupOf(e).members)
            /\ e.participants # <<>>
            /\ Range(e.participants) \subseteq Range(GroupOf(e).members)

\* C9: every stored expense has a share for every member of its group, 0 for
\* every non-participant, and in an equal split every participant has the
\* share round(total / |participants|).
C9_NonParticipantZero ==
    \A id \in DOMAIN expenses :
        LET e == expenses[id]
            members == Range(GroupOf(e).members)
        IN  /\ members \subseteq DOMAIN e.shares
            /\ \A m \in members \ Range(e.participants) : e.shares[m] = 0
            /\ e.split_type = "equal" =>
                  \A m \in Range(e.participants) :
                     /\ m \in DOMAIN e.shares
                     /\ e.shares[m]
                           = Round2Div(expense_total(e.base_amount, e.discount_amount,
                                           e.service_tax_amount, e.gst_amount),
                                       Len(e.participants))

\* position of member m in the balances map
BalanceIndex(m) == CHOOSE i \in 1..Len(balances) : balances[i].member = m

\* list is by descending amount and, among equal amounts, in the order of
\* the balances map
StableDescending(list) ==
    \A i, j \in 1..Len(list) :
        i < j => \/ list[i].amt > list[j].amt
                 \/ /\ list[i].amt = list[j].amt
                    /\ BalanceIndex(list[i].member) < BalanceIndex(list[j].member)

\* the balances of members [A, B, C] after one 90.00 expense paid by A and
\* split equally
C11_Balances ==
    aggregate_balances(<<"A", "B", "C">>,
        <<[paid_by |-> "A", amount |-> 90000,
           shares |-> equal_shares(<<"A", "B", "C">>, <<"A", "B", "C">>, 90000)]>>)

\* C11: when the loop is entered the creditors and the debtors are by
\* descending amount with equal amounts in the insertion order of the
\* balances map; the balances of one 90.00 expense paid by A and split among
\* [A, B, C] are {A: 60, B: -30, C: -30} and their settlements are exactly
\* [B pays A 30, C pays A 30].
C11_StableTieBreak ==
    /\ (pc = "loop" /\ settlements = <<>>) =>
           /\ StableDescending(creditors)
           /\ StableDescending(debtors)
           /\ ListMembers(creditors)
                 = {balances[i].member : i \in {k \in 1..Len(balances) :
                                                  balances[k].balance > EPS}}
           /\ ListMembers(debtors)
                 = {balances[i].member : i \in {k \in 1..Len(balances) :
                                                  balances[k].balance < -EPS}}
    /\ C11_Balances = <<[member |-> "A", balance |-> 60000],
                        [member |-> "B", balance |-> -30000],
                        [member |-> "C", balance |-> -30000]>>
    /\ (pc = "done" /\ balances = C11_Balances) =>
           settlements = <<[from |-> "B", to |-> "A", amount |-> 30000],
                           [from |-> "C", to |-> "A", amount |-> 30000]>>

\* simplify_debts has returned for the balances of the 90.00 expense, whose
\* two debtors tie at 30
C11_Witness ==
    /\ pc = "done"
    /\ balances = C11_Balances
    /\ Len(settlements) = 2

\* C12: simplify_debts returns a settlement list only for balances that sum
\* to within 0.01 of zero; for any other balances it reports an error
\* instead of returning a list.
C12_BalanceError ==
    pc = "done" => Abs(SumBalances(balances)) <= EPS

\* C13: an add_expense request that is rejected leaves the data file as it
\* was: the groups with their expense-id lists, the expenses and both id
\* counters are unchanged by the step.
C13_NoPartialMutation ==
    [][(resp'.op = "add_expense" /\ resp'.status = "rejected")
          => UNCHANGED storeVars]_vars

\* C14: every stored group has at least 2 members and pairwise distinct
\* member names, so a create_group request with fewer than 2 names or with a
\* repeated name stores no group.
C14_GroupMembership ==
    \A id \in DOMAIN groups :
        LET members == groups[id].members
        IN  /\ Len(members) >= 2
            /\ \A i, j \in 1..Len(members) : i # j => members[i] # members[j]

\* a success reported to a client is in the data file under its id
StillStored(reply) ==
    IF reply.op = "create_group"
      THEN /\ reply.id \in DOMAIN groups
           /\ groups[reply.id].name = reply.name
    ELSE /\ reply.id \in DOMAIN expenses
         /\ expenses[reply.id].description = reply.name
         /\ \E g \in DOMAIN groups : reply.id \in Range(groups[g].expenses)

\* C15: however two create_group / add_expense requests interleave at the
\* load_data and save_data calls, no two successful add_expense requests
\* were given the same expense id, and every group or expense reported as
\* saved is still in the data file.
C15_AtomicReadModifyWrite ==
    /\ \A i, j \in 1..Len(replies) :
          (i # j /\ replies[i].op = "add_expense" /\ replies[j].op = "add_expense")
             => replies[i].id # replies[j].id
    /\ \A i \in 1..Len(replies) : StillStored(replies[i])

\* the head of list has the largest amount of the list
HeadIsLargest(list) == \A i \in 1..Len(list) : list[1].amt >= list[i].amt

\* C16 as stated: in every iteration of the loop the creditor taken has the
\* largest remaining credit of all remaining creditors and the debtor taken
\* has the largest remaining debt of all remaining debtors.
C16_LargestFirst ==
    (pc = "loop" /\ creditors # <<>> /\ debtors # <<>>) =>
        /\ HeadIsLargest(creditors)
        /\ HeadIsLargest(debtors)

\* C16 as amended: every iteration takes the head of each list and records
\* one settlement from the head debtor to the head creditor of the smaller of
\* their two remaining amounts, rounded to cents; the heads are the largest
\* entries in the first iteration.
C16_HeadFirst ==
    [][(pc = "loop" /\ pc' = "loop") =>
          /\ Len(settlements') = Len(settlements) + 1
          /\ SubSeq(settlements', 1, Len(settlements)) = settlements
          /\ LET s == settlements'[Len(settlements')]
             IN  /\ s.from = debtors[1].member
                 /\ s.to = creditors[1].member
                 /\ s.amount = Round2(Min(creditors[1].amt, debtors[1].amt))
          /\ settlements = <<>> =>
                HeadIsLargest(creditors) /\ HeadIsLargest(debtors)]_vars

\* a later iteration is about to take a head creditor that is not the largest
\* remaining creditor
C16_Witness ==
    /\ pc = "loop"
    /\ settlements # <<>>
    /\ creditors # <<>> /\ debtors # <<>>
    /\ ~HeadIsLargest(creditors)

\* C17: an iteration whose head creditor and head debtor differ by at most
\* 0.01 in their remaining amounts removes both of them from their lists, so
\* neither is left with a residual of 0.01 or less to settle afterwards.
C17_EpsilonRemoval ==
    [][(/\ pc = "loop" /\ pc' = "loop"
        /\ Abs(creditors[1].amt - debtors[1].amt) <= EPS) =>
          /\ creditors' = Tail(creditors)
          /\ debtors' = Tail(debtors)]_vars

\* the entry of member m in the balances map
BalanceOf(m) == balances[BalanceIndex(m)].balance

\* C18 as stated: every returned settlement has amount > 0 and goes from a
\* member with negative balance to a different member with positive balance;
\* no member pays more than their debt or receives more than their credit.
C18_NoOverSettlement ==
    pc = "done" =>
        /\ \A k \in 1..Len(settlements) :
              /\ settlements[k].amount > 0
              /\ settlements[k].from # settlements[k].to
              /\ BalanceOf(settlements[k].from) < 0
              /\ BalanceOf(settlements[k].to) > 0
        /\ \A i \in 1..Len(balances) :
              /\ Paid(balances[i].member, settlements) <= Max(-balances[i].balance, 0)
              /\ Received(balances[i].member, settlements) <= Max(balances[i].balance, 0)

\* number of entries of the balances map that test is true of
CountBalances(test(_)) ==
    Cardinality({i \in 1..Len(balances) : test(balances[i].balance)})

\* the most settlements a call can return
MaxSettlements ==
    IF CountBalances(IsCreditor) = 0 \/ CountBalances(IsDebtor) = 0 THEN 0
    ELSE CountBalances(IsCreditor) + CountBalances(IsDebtor) - 1

\* C19: the loop of simplify_debts terminates, because every iteration
\* removes at least one entry from the creditor or the debtor list (their
\* total length, a natural number, strictly decreases); the settlements
\* returned are at most (creditors + debtors - 1), and none when there is no
\* creditor or no debtor.
C19_Termination ==
    [][/\ (pc = "loop" /\ pc' = "loop") =>
             /\ Len(creditors') + Len(debtors') < Len(creditors) + Len(debtors)
             /\ Len(settlements') = Len(settlements) + 1
       /\ (pc = "enter" /\ pc' = "loop") =>
             /\ Len(creditors') = CountBalances(IsCreditor)
             /\ Len(debtors') = CountBalances(IsDebtor)
             /\ settlements' = <<>>
       /\ pc' = "done" =>
             /\ creditors' = <<>> \/ debtors' = <<>>
             /\ Len(settlements') <= MaxSettlements]_vars

\* simplify_debts has returned as many settlements as the bound allows, after
\* more than one iteration
C19_Witness ==
    /\ pc = "done"
    /\ Len(settlements) = MaxSettlements
    /\ Len(settlements) >= 3

\* C20: no step serves a group to a user who is neither its owner nor in its
\* shared_with: for such a user add_expense stores nothing and settle_up
\* renders nothing.
C20_AccessControl ==
    [][\A user \in Users, group_id \in DOMAIN groups :
          ~HasAccess(groups[group_id], user) =>
             /\ ~(add_expense(user, group_id) /\ resp'.status = "saved")
             /\ ~(settle_up(user, group_id) /\ resp'.status = "rendered")]_vars

\* C21: after a successful create_group with at most 10 distinct member
\* names the persisted recent_members holds every member name of the new
\* group, holds no name twice and has at most 10 entries.
C21_RecentMembers ==
    (/\ resp.op = "create_group"
     /\ resp.status = "saved"
     /\ Cardinality(Range(groups[resp.group_id].members)) <= 10) =>
        /\ Range(groups[resp.group_id].members) \subseteq Range(recent_members)
        /\ Cardinality(Range(recent_members)) = Len(recent_members)
        /\ Len(recent_members) <= 10

====
